---- MODULE Spec2Model ----
(***************************************************************************)
(* fabricator-assemble (src/index.js): setup of the assembly stores and    *)
(* the partial registry from the discovered files, then assembly of one    *)
(* output file per view.                                                   *)
(*                                                                         *)
(* Strings are sequences of one-character strings, so that concatenation,  *)
(* replacement, extension stripping and ordering are computed character by *)
(* character.  A JavaScript object whose key order is observable is a      *)
(* record [keys, val]: keys in enumeration order, val the mapping.         *)
(***************************************************************************)
EXTENDS Integers, Sequences, FiniteSets, TLC

VARIABLES
    pc,         \* position of the running call: the step about to run
    input,      \* the user options and the files on disk for this call
    options,    \* var options: defaults merged with the user options
    assembly,   \* var assembly: layouts, data, materials, materialData, views, docs
    partials,   \* Handlebars.partials
    helpers,    \* names of the registered Handlebars helpers
    viewFiles,  \* var files of assemble()
    idx,        \* index in viewFiles of the view being assembled, 0 before assemble()
    dest,       \* files written under options.dest: path -> content
    destDirs,   \* directories created by mkdirp.sync
    thrown,     \* the step whose exception ended the call, "none" otherwise
    runs,       \* calls of the exported function so far
    fnArgs,     \* arguments of a function applied on its own
    fnRes,      \* its result
    prev        \* what the previous call left behind, and how this call began

vars == <<pc, input, options, assembly, partials, helpers, viewFiles, idx,
          dest, destDirs, thrown, runs, fnArgs, fnRes, prev>>

----------------------------------------------------------------------------
(* Characters and strings *)

\* UTF-16 code unit of the characters the model uses ("bq" is the backquote
\* and "sq" the single quote, which the lexer does not take inside a string)
Code(c) ==
    CASE c = "\n" -> 10 [] c = " " -> 32 [] c = "#" -> 35 [] c = "$" -> 36
      [] c = "%" -> 37 [] c = "&" -> 38 [] c = "sq" -> 39 [] c = "-" -> 45
      [] c = "." -> 46 [] c = "/" -> 47 [] c = ">" -> 62 [] c = "bq" -> 96
      [] c = "a" -> 97 [] c = "b" -> 98 [] c = "c" -> 99 [] c = "d" -> 100
      [] c = "e" -> 101 [] c = "f" -> 102 [] c = "g" -> 103 [] c = "h" -> 104
      [] c = "i" -> 105 [] c = "k" -> 107 [] c = "l" -> 108 [] c = "m" -> 109
      [] c = "n" -> 110 [] c = "o" -> 111 [] c = "p" -> 112 [] c = "r" -> 114
      [] c = "s" -> 115 [] c = "t" -> 116 [] c = "u" -> 117 [] c = "v" -> 118
      [] c = "w" -> 119 [] c = "x" -> 120 [] c = "y" -> 121 [] c = "z" -> 122
      [] c = "{" -> 123 [] c = "}" -> 125

\* \s of a JavaScript regular expression, over the model's characters
IsSpace(c) == c \in {" ", "\n"}

\* s.slice(i - 1, j) for 1-based i, j
Slice(s, i, j) == IF j < i THEN <<>> ELSE SubSeq(s, i, j)

\* s.startsWith(t, i - 1)
StartsAt(s, i, t) ==
    /\ i >= 1
    /\ i + Len(t) - 1 <= Len(s)
    /\ SubSeq(s, i, i + Len(t) - 1) = t

\* a < b on strings: comparison by code units
RECURSIVE StrLess(_, _)
StrLess(a, b) ==
    IF b = <<>> THEN FALSE
    ELSE IF a = <<>> THEN TRUE
    ELSE IF Head(a) = Head(b) THEN StrLess(Tail(a), Tail(b))
    ELSE Code(Head(a)) < Code(Head(b))

\* the value of an absent property or of an out-of-range array element
Undefined == <<"undefined">>

\* a string-valued scalar inside a parsed document
Str(s) == [str |-> s]

IsStr(v) == "str" \in DOMAIN v

----------------------------------------------------------------------------
(* Objects with observable key order *)

EmptyObj == [keys |-> <<>>, val |-> <<>>]

IsObj(v) == "keys" \in DOMAIN v

ObjHas(o, k) == k \in DOMAIN o.val

\* o[k] = v: a new key is appended to the enumeration order
ObjPut(o, k, v) ==
    [keys |-> IF ObjHas(o, k) THEN o.keys ELSE Append(o.keys, k),
     val  |-> [x \in (DOMAIN o.val) \cup {k} |-> IF x = k THEN v ELSE o.val[x]]]

\* _.omit(o, k)
Omit(o, k) ==
    [keys |-> SelectSeq(o.keys, LAMBDA x : x # k),
     val  |-> [x \in (DOMAIN o.val) \ {k} |-> o.val[x]]]

\* _.assign on plain mappings: the right operand wins
Assign(f, g) ==
    [k \in (DOMAIN f) \cup (DOMAIN g) |-> IF k \in DOMAIN g THEN g[k] ELSE f[k]]

RECURSIVE InsertSorted(_, _)
InsertSorted(k, s) ==
    IF s = <<>> THEN <<k>>
    ELSE IF StrLess(k, Head(s)) THEN <<k>> \o s
    ELSE <<Head(s)>> \o InsertSorted(k, Tail(s))

RECURSIVE SortKeys(_)
SortKeys(s) == IF s = <<>> THEN <<>> ELSE InsertSorted(Head(s), SortKeys(Tail(s)))

\* sort-object: the same mapping with its keys in ascending order
sortObj(o) == [keys |-> SortKeys(o.keys), val |-> o.val]

----------------------------------------------------------------------------
(* External adapters, kept symbolic *)

titleCase(s) == [fn |-> "titleCase", arg |-> s]

mdRender(s) == [fn |-> "md.render", arg |-> s]

----------------------------------------------------------------------------
(* Paths: a path is the sequence of its segments, the file name last *)

basename(file) == file[Len(file)]

\* path.dirname(file).split(path.sep).pop()
DirName(file) == IF Len(file) >= 2 THEN file[Len(file) - 1] ELSE <<".">>

\* path.dirname(file).split(path.sep).slice(-2, -1)[0]
ParentDirName(file) == IF Len(file) >= 3 THEN file[Len(file) - 2] ELSE Undefined

\* index of the last "." of s that is followed by at least one character and
\* by no "." or "/" up to the end; 0 when there is none
ExtStart(s) ==
    LET C == {i \in 1..Len(s) :
                /\ s[i] = "."
                /\ i < Len(s)
                /\ \A j \in (i + 1)..Len(s) : s[j] \notin {".", "/"}}
    IN IF C = {} THEN 0 ELSE CHOOSE i \in C : TRUE

\* path.basename(filePath).replace(/\.[^\/.]+$/, '')
getFileName(file) ==
    LET b == basename(file) e == ExtStart(b)
    IN IF e = 0 THEN b ELSE Slice(b, 1, e - 1)

----------------------------------------------------------------------------
(* Layout composition *)

\* length of the match of /\{\%\s?body\s?\%\}/ at index i of s, 0 when none
PlaceholderAt(s, i) ==
    IF ~StartsAt(s, i, <<"{", "%">>) THEN 0
    ELSE LET a == IF i + 2 <= Len(s) /\ IsSpace(s[i + 2]) THEN i + 3 ELSE i + 2
             b == a + 4
             c == IF b <= Len(s) /\ IsSpace(s[b]) THEN b + 1 ELSE b
         IN IF StartsAt(s, a, <<"b", "o", "d", "y">>) /\ StartsAt(s, c, <<"%", "}">>)
            THEN c + 2 - i
            ELSE 0

\* index of the first match of the placeholder in s, 0 when there is none
FirstPlaceholder(s) ==
    LET M == {i \in 1..Len(s) : PlaceholderAt(s, i) > 0}
    IN IF M = {} THEN 0 ELSE CHOOSE i \in M : \A j \in M : i <= j

\* GetSubstitution of String.prototype.replace for a pattern without capture
\* groups: $$ is a dollar sign, $& the match, $` the text before the match and
\* $' the text after it; every other character stands for itself
RECURSIVE GetSubstitution(_, _, _, _)
GetSubstitution(r, matched, before, after) ==
    IF r = <<>> THEN <<>>
    ELSE IF Head(r) = "$" /\ Len(r) >= 2 /\ r[2] \in {"$", "&", "bq", "sq"}
    THEN (CASE r[2] = "$"  -> <<"$">>
            [] r[2] = "&"  -> matched
            [] r[2] = "bq" -> before
            [] r[2] = "sq" -> after)
         \o GetSubstitution(Slice(r, 3, Len(r)), matched, before, after)
    ELSE <<Head(r)>> \o GetSubstitution(Tail(r), matched, before, after)

\* layout.replace(/\{\%\s?body\s?\%\}/, page); a layout that is undefined
\* has no replace method
wrapPage(page, layout) ==
    IF layout = Undefined THEN [error |-> "TypeError"]
    ELSE LET i == FirstPlaceholder(layout) IN
         IF i = 0 THEN [ok |-> layout]
         ELSE LET n      == PlaceholderAt(layout, i)
                  before == Slice(layout, 1, i - 1)
                  after  == Slice(layout, i + n, Len(layout))
              IN [ok |-> before
                         \o GetSubstitution(page, Slice(layout, i, i + n - 1), before, after)
                         \o after]

----------------------------------------------------------------------------
(* Material bodies: trimming and the rewriting of local field references *)

\* number of leading characters removed by /^(\s*(\r?\n|\r))+/ : the longest
\* prefix of white space that ends with a line break
LeadingBlank(s) ==
    LET P == {i \in 1..Len(s) : s[i] = "\n" /\ \A j \in 1..i : IsSpace(s[j])}
    IN IF P = {} THEN 0 ELSE CHOOSE i \in P : \A j \in P : j <= i

\* first index removed by /(\s*(\r?\n|\r))+$/ : the white space at the end of
\* s, when s ends with a line break; Len(s) + 1 when nothing is removed
TrailingBlank(s) ==
    IF s = <<>> \/ s[Len(s)] # "\n" THEN Len(s) + 1
    ELSE CHOOSE i \in 1..Len(s) :
            /\ \A j \in i..Len(s) : IsSpace(s[j])
            /\ (i = 1 \/ ~IsSpace(s[i - 1]))

\* content.replace(/^(\s*(\r?\n|\r))+|(\s*(\r?\n|\r))+$/g, '')
TrimContent(s) ==
    LET t == Slice(s, LeadingBlank(s) + 1, Len(s))
    IN Slice(t, 1, TrailingBlank(t) - 1)

\* id.replace(/\./g, '-')
SafeId(id) == [i \in 1..Len(id) |-> IF id[i] = "." THEN "-" ELSE id[i]]

\* p2.replace(/\s/g, '')
StripSpace(s) == SelectSeq(s, LAMBDA c : ~IsSpace(c))

\* number of consecutive occurrences of character c in s from index i on
RECURSIVE RunLength(_, _, _)
RunLength(s, i, c) ==
    IF i <= Len(s) /\ s[i] = c THEN 1 + RunLength(s, i + 1, c) ELSE 0

\* The match of new RegExp('(\\{\\{[#\/]?)(\\s?' + key + '+?\\s?)(\\}\\})')
\* at index i of s, for a key of letters: [len, p1, p2], len = 0 when there
\* is none.  The quantifier +? binds to the last character of the key.
FieldMatchAt(s, i, key) ==
    LET none == [len |-> 0, p1 |-> <<>>, p2 |-> <<>>]
        a    == IF i + 2 <= Len(s) /\ s[i + 2] \in {"#", "/"} THEN i + 3 ELSE i + 2
        b    == IF a <= Len(s) /\ IsSpace(s[a]) THEN a + 1 ELSE a
        n    == Len(key)
        c    == b + n - 1
        r    == RunLength(s, c, key[n])
        d    == c + r
        e    == IF d <= Len(s) /\ IsSpace(s[d]) THEN d + 1 ELSE d
    IN IF /\ StartsAt(s, i, <<"{", "{">>)
          /\ StartsAt(s, b, Slice(key, 1, n - 1))
          /\ r >= 1
          /\ StartsAt(s, e, <<"}", "}">>)
       THEN [len |-> e + 2 - i, p1 |-> Slice(s, i, a - 1), p2 |-> Slice(s, a, e - 1)]
       ELSE none

\* content.replace(regex, function (match, p1, p2, p3) { ... }) with the g
\* flag, from index i on: every match, left to right, becomes
\* p1 + id.replace(/\./g, '-') + '.' + p2.replace(/\s/g, '') + p3
RECURSIVE RewriteFrom(_, _, _, _)
RewriteFrom(s, i, key, id) ==
    IF i > Len(s) THEN <<>>
    ELSE LET m == FieldMatchAt(s, i, key) IN
         IF m.len = 0 THEN <<s[i]>> \o RewriteFrom(s, i + 1, key, id)
         ELSE m.p1 \o SafeId(id) \o <<".">> \o StripSpace(m.p2) \o <<"}", "}">>
              \o RewriteFrom(s, i + m.len, key, id)

RewriteField(content, key, id) == RewriteFrom(content, 1, key, id)

\* _.forEach(localData, ...): one global replacement per key, in key order
RECURSIVE RewriteFields(_, _, _)
RewriteFields(content, keys, id) ==
    IF keys = <<>> THEN content
    ELSE RewriteFields(RewriteField(content, Head(keys), id), Tail(keys), id)

----------------------------------------------------------------------------
(* parseMaterials *)

notesKey == <<"n", "o", "t", "e", "s">>

\* a front-matter value that is present and not the empty string
Truthy(o, k) == ObjHas(o, k) /\ o.val[k] # Str(<<>>)

\* files.map(file => path.dirname(file).split(path.sep).pop()), as a set:
\* the code only asks dirs.indexOf(x) > -1
MaterialDirs(files) == {DirName(files[i].path) : i \in DOMAIN files}

\* { name: changeCase.titleCase(collection), items: {} }
Stub(collection) == [name |-> titleCase(collection), items |-> EmptyObj]

\* s.split('.'): the pieces of s between its dots
RECURSIVE SplitDot(_)
SplitDot(s) ==
    LET D == {i \in 1..Len(s) : s[i] = "."} IN
    IF D = {} THEN <<s>>
    ELSE LET i == CHOOSE x \in D : \A y \in D : x <= y
         IN <<Slice(s, 1, i - 1)>> \o SplitDot(Slice(s, i + 1, Len(s)))

\* The body of the first forEach for one file: stub the collection, or the
\* sub-collection inside its parent.  Reading .items of a parent that has no
\* entry yet throws a TypeError.
StubOne(materials, file, dirs) ==
    LET parent     == ParentDirName(file)
        collection == DirName(file)
        isSub      == parent \in dirs
    IN IF ~isSub
       THEN [err |-> FALSE,
             materials |-> IF ObjHas(materials, collection) THEN materials
                           ELSE ObjPut(materials, collection, Stub(collection))]
       ELSE IF ~ObjHas(materials, parent)
       THEN [err |-> TRUE, materials |-> materials]
       ELSE LET p == materials.val[parent] IN
            [err |-> FALSE,
             materials |->
                IF ObjHas(p.items, collection) THEN materials
                ELSE ObjPut(materials, parent,
                            [p EXCEPT !.items = ObjPut(p.items, collection, Stub(collection))])]

RECURSIVE StubCollections(_, _, _)
StubCollections(m, files, dirs) ==
    IF files = <<>> \/ m.err THEN m
    ELSE StubCollections(StubOne(m.materials, Head(files).path, dirs), Tail(files), dirs)

\* id of a material: collection + '.' + file name when nested, else file name
MaterialId(file, dirs) ==
    IF ParentDirName(file) \in dirs
    THEN DirName(file) \o <<".">> \o getFileName(file)
    ELSE getFileName(file)

\* the partial registered under the key of the local data
PartialKeySafe(id) == SafeId(id)

\* key of Handlebars.registerPartial(id, content) for a material
PartialKey(id) == id

\* key of assembly.materialData[id.replace(/\./g, '-')] = localData
DataKey(id) == SafeId(id)

\* The body of the second forEach for one file, on
\* st = [err, materials, materialData, partials].  Writing .items[id] of a
\* sub-collection entry that has no items throws a TypeError before
\* materialData and the registry are touched.
MaterialOne(st, f, dirs) ==
    LET file       == f.path
        collection == DirName(file)
        parent     == ParentDirName(file)
        isSub      == parent \in dirs
        id         == MaterialId(file, dirs)
        localData  == Omit(f.data, notesKey)
        content    == TrimContent(f.content)
        top        == st.materials.val[IF isSub THEN parent ELSE collection]
        item       == [name  |-> titleCase(IF isSub THEN SplitDot(id)[2] ELSE id),
                       notes |-> IF Truthy(f.data, notesKey)
                                 THEN mdRender(f.data.val[notesKey].str)
                                 ELSE Str(<<>>)]
        written    ==
            IF ~isSub
            THEN ObjPut(st.materials, collection,
                        [top EXCEPT !.items = ObjPut(top.items, id, item)])
            ELSE LET sub == top.items.val[collection] IN
                 ObjPut(st.materials, parent,
                        [top EXCEPT !.items =
                            ObjPut(top.items, collection,
                                   [sub EXCEPT !.items = ObjPut(sub.items, id, item)])])
        broken     == isSub /\ "items" \notin DOMAIN top.items.val[collection]
    IN IF broken THEN [st EXCEPT !.err = TRUE]
       ELSE [err          |-> FALSE,
             materials    |-> written,
             materialData |-> Assign(st.materialData, [k \in {DataKey(id)} |-> localData]),
             partials     |-> Assign(st.partials,
                                     [k \in {PartialKey(id)} |->
                                        RewriteFields(content, localData.keys, id)])]

RECURSIVE MaterialAll(_, _, _)
MaterialAll(st, files, dirs) ==
    IF files = <<>> \/ st.err THEN st
    ELSE MaterialAll(MaterialOne(st, Head(files), dirs), Tail(files), dirs)

\* items of every top-level collection sorted: the for-in loop of lines 258-260
SortItems(materials) ==
    [keys |-> materials.keys,
     val  |-> [c \in DOMAIN materials.val |->
                 [materials.val[c] EXCEPT !.items = sortObj(materials.val[c].items)]]]

\* parseMaterials on the discovered files (in discovery order), from the
\* current materialData and registry: [err, materials, materialData, partials]
parseMaterials(files, materialData, registry) ==
    LET dirs == MaterialDirs(files)
        m1   == StubCollections([err |-> FALSE, materials |-> EmptyObj], files, dirs)
        st1  == [err |-> m1.err, materials |-> m1.materials,
                 materialData |-> materialData, partials |-> registry]
        st2  == MaterialAll(st1, files, dirs)
    IN IF st2.err THEN st2
       ELSE [st2 EXCEPT !.materials = SortItems(sortObj(st2.materials))]

----------------------------------------------------------------------------
(* File discovery *)

\* a path as one string, its segments joined by "/"
RECURSIVE PathStr(_)
PathStr(path) ==
    IF path = <<>> THEN <<>>
    ELSE IF Len(path) = 1 THEN Head(path)
    ELSE Head(path) \o <<"/">> \o PathStr(Tail(path))

\* globby.sync(pattern, { nodir: true }) on the set of files the pattern
\* matches: glob sorts its result by path unless nosort is given
GlobSorted(files) ==
    CHOOSE s \in [1..Cardinality(files) -> files] :
        \A i, j \in 1..Cardinality(files) :
            i < j => StrLess(PathStr(s[i].path), PathStr(s[j].path))

----------------------------------------------------------------------------
(* The other parsers of setup; each resets its store and fills it in
   discovery order, a later file with the same id replacing the earlier *)

RECURSIVE ContentById(_, _)
ContentById(store, files) ==
    IF files = <<>> THEN store
    ELSE ContentById(Assign(store, [k \in {getFileName(Head(files).path)} |-> Head(files).content]),
                     Tail(files))

\* assembly.layouts[id] = content
parseLayouts(files) == ContentById(<<>>, files)

\* Handlebars.registerPartial(id, content): the registry is not reset
parseLayoutIncludes(files, registry) == ContentById(registry, files)

\* assembly.data[id] = yaml.safeLoad(...): the files carry their parsed value
parseData(files) ==
    ContentById(<<>>, [i \in DOMAIN files |-> [path |-> files[i].path, content |-> files[i].value]])

viewsDir == <<"v", "i", "e", "w", "s">>

\* (dirname !== 'views') ? dirname : ''
ViewCollection(file) == IF DirName(file) # viewsDir THEN DirName(file) ELSE <<>>

RECURSIVE ViewsFrom(_, _)
ViewsFrom(views, files) ==
    IF files = <<>> THEN views
    ELSE LET file == Head(files).path
             id   == getFileName(file)
             c    == ViewCollection(file)
             col  == IF ObjHas(views, c) THEN views.val[c] ELSE Stub(c)
         IN ViewsFrom(IF c = <<>> THEN views
                      ELSE ObjPut(views, c,
                                  [col EXCEPT !.items =
                                      ObjPut(col.items, id, [name |-> titleCase(id)])]),
                      Tail(files))

parseViews(files) == ViewsFrom(EmptyObj, files)

RECURSIVE DocsFrom(_, _)
DocsFrom(docs, files) ==
    IF files = <<>> THEN docs
    ELSE LET id == getFileName(Head(files).path)
         IN DocsFrom(ObjPut(docs, id, [name |-> titleCase(id),
                                       content |-> mdRender(Head(files).content)]),
                     Tail(files))

parseDocs(files) == DocsFrom(EmptyObj, files)

----------------------------------------------------------------------------
(* Template context and evaluation *)

materialsKey == <<"m", "a", "t", "e", "r", "i", "a", "l", "s">>
viewsKey     == <<"v", "i", "e", "w", "s">>
docsKey      == <<"d", "o", "c", "s">>

\* the page data merged last instead of first
buildContextDataLast(asm, data) ==
    Assign(Assign(Assign(Assign(Assign(asm.data, asm.materialData),
                                [k \in {materialsKey} |-> asm.materials]),
                         [k \in {viewsKey} |-> asm.views]),
                  [k \in {docsKey} |-> asm.docs]),
           data.val)

\* _.assign({}, data, assembly.data, assembly.materialData,
\*          { materials: ... }, { views: ... }, { docs: ... })
buildContext(asm, data) ==
    Assign(Assign(Assign(Assign(Assign(data.val, asm.data), asm.materialData),
                         [k \in {materialsKey} |-> asm.materials]),
                  [k \in {viewsKey} |-> asm.views]),
           [k \in {docsKey} |-> asm.docs])

\* the value a dotted path resolves to in a context, [undefined |-> TRUE]
\* when a step is missing
RECURSIVE Resolve(_, _)
Resolve(v, segs) ==
    IF segs = <<>> THEN v
    ELSE IF IsObj(v) /\ ObjHas(v, Head(segs)) THEN Resolve(v.val[Head(segs)], Tail(segs))
    ELSE [undefined |-> TRUE]

Lookup(ctx, path) ==
    LET segs == SplitDot(path)
    IN IF Head(segs) \in DOMAIN ctx THEN Resolve(ctx[Head(segs)], Tail(segs))
       ELSE [undefined |-> TRUE]

\* the text Handlebars emits for a value: a string as it is, nothing for
\* undefined, the default string conversion for an object
Emit(v) ==
    IF IsStr(v) THEN v.str
    ELSE IF "undefined" \in DOMAIN v THEN <<>>
    ELSE <<"[object Object]">>

\* index of the first "}}" at or after index i of s, 0 when there is none
CloseFrom(s, i) ==
    LET C == {j \in i..Len(s) : StartsAt(s, j, <<"}", "}">>)}
    IN IF C = {} THEN 0 ELSE CHOOSE j \in C : \A k \in C : j <= k

\* Handlebars.compile(source)(context), for templates made of text, field
\* references {{path}} and partial includes {{> name}}: [text, err], err
\* being TRUE when a partial that is included is not registered
RECURSIVE Render(_, _, _)
Render(s, ctx, registry) ==
    IF s = <<>> THEN [text |-> <<>>, err |-> FALSE]
    ELSE LET c == IF StartsAt(s, 1, <<"{", "{">>) THEN CloseFrom(s, 3) ELSE 0 IN
         IF c = 0
         THEN LET r == Render(Tail(s), ctx, registry)
              IN [text |-> <<Head(s)>> \o r.text, err |-> r.err]
         ELSE LET inner == StripSpace(Slice(s, 3, c - 1))
                  rest  == Render(Slice(s, c + 2, Len(s)), ctx, registry)
                  here  ==
                      IF inner # <<>> /\ Head(inner) = ">"
                      THEN IF Tail(inner) \in DOMAIN registry
                           THEN Render(registry[Tail(inner)], ctx, registry)
                           ELSE [text |-> <<>>, err |-> TRUE]
                      ELSE IF inner = <<>> \/ Head(inner) \in {"#", "/"}
                      THEN [text |-> <<>>, err |-> FALSE]
                      ELSE [text |-> Emit(Lookup(ctx, inner)), err |-> FALSE]
              IN [text |-> here.text \o rest.text, err |-> here.err \/ rest.err]

----------------------------------------------------------------------------
(* assemble(): one view *)

layoutKey  == <<"l", "a", "y", "o", "u", "t">>
baseurlKey == <<"b", "a", "s", "e", "u", "r", "l">>

\* path.normalize(path.join(options.dest, collection, path.basename(file)))
OutputPath(opts, file) ==
    <<opts.dest>>
    \o (IF ViewCollection(file) = <<>> THEN <<>> ELSE <<ViewCollection(file)>>)
    \o <<basename(file)>>

\* pageMatter.data, with baseurl set for a view of a collection
PageData(view) ==
    IF ViewCollection(view.path) # <<>>
    THEN ObjPut(view.data, baseurlKey, Str(<<".", ".">>))
    ELSE view.data

\* the default layout whatever the page asks for
LayoutIdDefaultOnly(opts, data) == opts.layout

\* pageMatter.data.layout || options.layout
LayoutId(opts, data) ==
    IF Truthy(data, layoutKey) THEN data.val[layoutKey].str ELSE opts.layout

\* assembly.layouts[...]
LayoutOf(asm, id) == IF id \in DOMAIN asm.layouts THEN asm.layouts[id] ELSE Undefined

\* The body of the forEach of assemble() for one view:
\* [at, path, text]; at is "none" when the file is written with text at path,
\* "wrapPage" when wrapPage throws (before mkdirp), "template" when
\* evaluating the template throws (after mkdirp, before the write)
AssembleOne(view, opts, asm, registry) ==
    LET data   == PageData(view)
        source == wrapPage(view.content, LayoutOf(asm, LayoutId(opts, data)))
        path   == OutputPath(opts, view.path)
    IN IF "error" \in DOMAIN source
       THEN [at |-> "wrapPage", path |-> path, text |-> <<>>]
       ELSE LET out == Render(source.ok, buildContext(asm, data), registry)
            IN [at |-> IF out.err THEN "template" ELSE "none",
                path |-> path, text |-> out.text]

----------------------------------------------------------------------------
(* The exported function: setup(options), then assemble() *)

defaultLayout == <<"d", "e", "f", "a", "u", "l", "t">>
defaultDest   == <<"d", "i", "s", "t">>

\* var defaults, for the options that are not file patterns
defaults == [layout |-> defaultLayout, dest |-> defaultDest]

EmptyAssembly ==
    [layouts |-> <<>>, data |-> <<>>, materials |-> EmptyObj,
     materialData |-> <<>>, views |-> EmptyObj, docs |-> EmptyObj]

NoInput ==
    [options |-> <<>>, layouts |-> {}, includes |-> {}, data |-> {},
     materials |-> <<>>, views |-> {}, docs |-> {}]

\* before the first call: nothing was left behind, and the destination is as
\* empty as after it has been emptied
NoPrev ==
    [input |-> NoInput, dest |-> <<>>, thrown |-> "none", clean |-> TRUE,
     prevClean |-> TRUE]

\* parseDocs called after assemble() instead of at the end of setup()
AfterDocsLast(step) ==
    CASE step = "registerHelpers"     -> "parseLayouts"
      [] step = "parseLayouts"        -> "parseLayoutIncludes"
      [] step = "parseLayoutIncludes" -> "parseData"
      [] step = "parseData"           -> "parseMaterials"
      [] step = "parseMaterials"      -> "parseViews"
      [] step = "parseViews"          -> "assemble"
      [] step = "assemble"            -> "assemblePage"
      [] step = "assemblePage"        -> "parseDocs"
      [] step = "parseDocs"           -> "done"

\* parseMaterials called after assemble() instead of during setup()
AfterMaterialsLast(step) ==
    CASE step = "registerHelpers"     -> "parseLayouts"
      [] step = "parseLayouts"        -> "parseLayoutIncludes"
      [] step = "parseLayoutIncludes" -> "parseData"
      [] step = "parseData"           -> "parseViews"
      [] step = "parseViews"          -> "parseDocs"
      [] step = "parseDocs"           -> "assemble"
      [] step = "assemble"            -> "assemblePage"
      [] step = "assemblePage"        -> "parseMaterials"
      [] step = "parseMaterials"      -> "done"

\* the step that follows each step: the order of the calls in setup() and in
\* the exported function
After(step) ==
    CASE step = "registerHelpers"     -> "parseLayouts"
      [] step = "parseLayouts"        -> "parseLayoutIncludes"
      [] step = "parseLayoutIncludes" -> "parseData"
      [] step = "parseData"           -> "parseMaterials"
      [] step = "parseMaterials"      -> "parseViews"
      [] step = "parseViews"          -> "parseDocs"
      [] step = "parseDocs"           -> "assemble"
      [] step = "assemble"            -> "assemblePage"
      [] step = "assemblePage"        -> "done"

Init ==
    /\ pc = "idle"
    /\ input = NoInput
    /\ options = <<>>
    /\ assembly = EmptyAssembly
    /\ partials = <<>>
    /\ helpers = {}
    /\ viewFiles = <<>>
    /\ idx = 0
    /\ dest = <<>>
    /\ destDirs = {}
    /\ thrown = "none"
    /\ runs = 0
    /\ fnArgs = <<>>
    /\ fnRes = <<>>
    /\ prev = NoPrev

\* module.exports(options) is called with the files of `in` on disk;
\* setup() begins: options = _.assign({}, defaults, userOptions)
Call(Ins) ==
    /\ pc = "idle"
    /\ \E in \in Ins :
         /\ input' = in
         /\ options' = Assign(defaults, in.options)
    /\ pc' = "registerHelpers"
    /\ idx' = 0
    /\ thrown' = "none"
    /\ runs' = runs + 1
    /\ UNCHANGED <<assembly, partials, helpers, viewFiles, dest, destDirs, fnArgs, fnRes, prev>>

RegisterHelpers ==
    /\ pc = "registerHelpers"
    /\ helpers' = helpers \cup {"material"}
    /\ pc' = After(pc)
    /\ UNCHANGED <<input, options, assembly, partials, viewFiles, idx, dest, destDirs,
                   thrown, runs, fnArgs, fnRes, prev>>

ParseLayouts ==
    /\ pc = "parseLayouts"
    /\ assembly' = [assembly EXCEPT !.layouts = parseLayouts(GlobSorted(input.layouts))]
    /\ pc' = After(pc)
    /\ UNCHANGED <<input, options, partials, helpers, viewFiles, idx, dest, destDirs,
                   thrown, runs, fnArgs, fnRes, prev>>

ParseLayoutIncludes ==
    /\ pc = "parseLayoutIncludes"
    /\ partials' = parseLayoutIncludes(GlobSorted(input.includes), partials)
    /\ pc' = After(pc)
    /\ UNCHANGED <<input, options, assembly, helpers, viewFiles, idx, dest, destDirs,
                   thrown, runs, fnArgs, fnRes, prev>>

ParseData ==
    /\ pc = "parseData"
    /\ assembly' = [assembly EXCEPT !.data = parseData(GlobSorted(input.data))]
    /\ pc' = After(pc)
    /\ UNCHANGED <<input, options, partials, helpers, viewFiles, idx, dest, destDirs,
                   thrown, runs, fnArgs, fnRes, prev>>

\* input.materials is the list in the order the file system enumerates it
\* (nosort: true)
ParseMaterials ==
    /\ pc = "parseMaterials"
    /\ LET r == parseMaterials(input.materials, assembly.materialData, partials) IN
         /\ assembly' = [assembly EXCEPT !.materials = r.materials,
                                         !.materialData = r.materialData]
         /\ partials' = r.partials
         /\ pc' = IF r.err THEN "failed" ELSE After(pc)
         /\ thrown' = IF r.err THEN "parseMaterials" ELSE thrown
    /\ UNCHANGED <<input, options, helpers, viewFiles, idx, dest, destDirs, runs,
                   fnArgs, fnRes, prev>>

ParseViews ==
    /\ pc = "parseViews"
    /\ assembly' = [assembly EXCEPT !.views = parseViews(GlobSorted(input.views))]
    /\ pc' = After(pc)
    /\ UNCHANGED <<input, options, partials, helpers, viewFiles, idx, dest, destDirs,
                   thrown, runs, fnArgs, fnRes, prev>>

ParseDocs ==
    /\ pc = "parseDocs"
    /\ assembly' = [assembly EXCEPT !.docs = parseDocs(GlobSorted(input.docs))]
    /\ pc' = After(pc)
    /\ UNCHANGED <<input, options, partials, helpers, viewFiles, idx, dest, destDirs,
                   thrown, runs, fnArgs, fnRes, prev>>

\* assemble() up to its loop: the views are listed and options.dest is created
AssembleBegin ==
    /\ pc = "assemble"
    /\ viewFiles' = GlobSorted(input.views)
    /\ destDirs' = destDirs \cup {<<options.dest>>}
    /\ idx' = 1
    /\ pc' = After(pc)
    /\ UNCHANGED <<input, options, assembly, partials, helpers, dest, thrown, runs,
                   fnArgs, fnRes, prev>>

\* a view that fails is skipped and the loop goes on with the next view
AssemblePageSkip ==
    /\ pc = "assemblePage"
    /\ idx <= Len(viewFiles)
    /\ LET r == AssembleOne(viewFiles[idx], options, assembly, partials) IN
         /\ destDirs' = IF r.at = "wrapPage" THEN destDirs
                        ELSE destDirs \cup {Slice(r.path, 1, Len(r.path) - 1)}
         /\ dest' = IF r.at = "none" THEN Assign(dest, [k \in {r.path} |-> r.text]) ELSE dest
         /\ idx' = idx + 1
    /\ UNCHANGED <<pc, thrown, input, options, assembly, partials, helpers, viewFiles,
                   runs, fnArgs, fnRes, prev>>

\* one iteration of the loop of assemble()
AssemblePage ==
    /\ pc = "assemblePage"
    /\ idx <= Len(viewFiles)
    /\ LET r == AssembleOne(viewFiles[idx], options, assembly, partials) IN
         /\ destDirs' = IF r.at = "wrapPage" THEN destDirs
                        ELSE destDirs \cup {Slice(r.path, 1, Len(r.path) - 1)}
         /\ dest' = IF r.at = "none" THEN Assign(dest, [k \in {r.path} |-> r.text]) ELSE dest
         /\ idx' = IF r.at = "none" THEN idx + 1 ELSE idx
         /\ pc' = IF r.at = "none" THEN pc ELSE "failed"
         /\ thrown' = IF r.at = "none" THEN thrown ELSE r.at
    /\ UNCHANGED <<input, options, assembly, partials, helpers, viewFiles, runs,
                   fnArgs, fnRes, prev>>

\* the loop is over: assemble() and the exported function return
Return ==
    /\ pc = "assemblePage"
    /\ idx > Len(viewFiles)
    /\ pc' = After(pc)
    /\ UNCHANGED <<input, options, assembly, partials, helpers, viewFiles, idx, dest,
                   destDirs, thrown, runs, fnArgs, fnRes, prev>>

Steps ==
    \/ RegisterHelpers
    \/ ParseLayouts
    \/ ParseLayoutIncludes
    \/ ParseData
    \/ ParseMaterials
    \/ ParseViews
    \/ ParseDocs
    \/ AssembleBegin
    \/ AssemblePage
    \/ Return

----------------------------------------------------------------------------
(* The files and options the calls are explored with *)

MaxMaterials == 3
MaxViews == 3

File(path, data, content) == [path |-> path, data |-> data, content |-> content]

Field(k, v) == ObjPut(EmptyObj, k, Str(v))

materialsDir == <<"m", "a", "t", "e", "r", "i", "a", "l", "s">>
components   == <<"c", "o", "m", "p", "o", "n", "e", "n", "t", "s">>
structures   == <<"s", "t", "r", "u", "c", "t", "u", "r", "e", "s">>
forms        == <<"f", "o", "r", "m", "s">>
pages        == <<"p", "a", "g", "e", "s">>
layoutsDir   == <<"l", "a", "y", "o", "u", "t", "s">>
dataDir      == <<"d", "a", "t", "a">>
siteDir      == <<"s", "i", "t", "e">>

\* {{a}}
RefA == <<"{", "{", "a", "}", "}">>

\* components/button.html, front matter a: v
Button == File(<<materialsDir, components, <<"b", "u", "t", "t", "o", "n", ".", "h">>>>,
               Field(<<"a">>, <<"v">>), RefA)

\* components/forms/toggle.html, front matter a: w
Toggle == File(<<materialsDir, components, forms, <<"t", "o", "g", "g", "l", "e", ".", "h">>>>,
               Field(<<"a">>, <<"w">>), <<"\n">> \o RefA \o <<" ", "\n">>)

\* components/forms/check.html, no front matter
Check == File(<<materialsDir, components, forms, <<"c", "h", "e", "c", "k", ".", "h">>>>,
              EmptyObj, <<"x">>)

\* structures/button.html, front matter a: u
Button2 == File(<<materialsDir, structures, <<"b", "u", "t", "t", "o", "n", ".", "h">>>>,
                Field(<<"a">>, <<"u">>), RefA)

\* components/views.html, front matter a: v
ViewsMaterial == File(<<materialsDir, components, <<"v", "i", "e", "w", "s", ".", "h">>>>,
                      Field(<<"a">>, <<"v">>), <<"{", "{", " ", "a", " ", "}", "}">>)

\* components/alert.html, front matter notes: n
Alert == File(<<materialsDir, components, <<"a", "l", "e", "r", "t", ".", "h">>>>,
              Field(notesKey, <<"n">>), <<"y">>)

\* structures/forms/toggle.html, front matter notes: m
Toggle2 == File(<<materialsDir, structures, forms, <<"t", "o", "g", "g", "l", "e", ".", "h">>>>,
                Field(notesKey, <<"m">>), <<"z">>)

MaterialPool == {Button, Toggle, Check, Button2, ViewsMaterial, Alert, Toggle2}

\* layouts/default.html and layouts/c.html
DefaultLayout ==
    [path |-> <<viewsDir, layoutsDir, defaultLayout \o <<".", "h">>>>,
     content |-> <<"h", "{", "%", " ", "b", "o", "d", "y", " ", "%", "}", "f">>]

CustomLayout ==
    [path |-> <<viewsDir, layoutsDir, <<"c", ".", "h">>>>,
     content |-> <<"{", "%", "b", "o", "d", "y", "%", "}">>]

\* data/k.yml = {g: hi} and data/button.yml = {a: d}
DataK == [path |-> <<dataDir, <<"k", ".", "y">>>>, value |-> Field(<<"g">>, <<"h", "i">>)]

DataButton ==
    [path |-> <<dataDir, <<"b", "u", "t", "t", "o", "n", ".", "y">>>>,
     value |-> Field(<<"a">>, <<"d">>)]

\* views/index.html, front matter k: p
Index == File(<<viewsDir, <<"i", "n", "d", "e", "x", ".", "h">>>>,
              Field(<<"k">>, <<"p">>), <<"{", "{", "k", "}", "}">>)

\* views/pages/home.html, front matter layout: c
Home == File(<<viewsDir, pages, <<"h", "o", "m", "e", ".", "h">>>>,
             Field(layoutKey, <<"c">>), <<"x">>)

\* views/pages/about.html, front matter layout: z
About == File(<<viewsDir, pages, <<"a", "b", "o", "u", "t", ".", "h">>>>,
              Field(layoutKey, <<"z">>), <<"y">>)

\* views/views/faq.html: a collection that has the name of the root
Faq == File(<<viewsDir, viewsDir, <<"f", "a", "q", ".", "h">>>>, EmptyObj, <<"z">>)

\* site/intro.html: a view directly in a views root named site
Intro == File(<<siteDir, <<"i", "n", "t", "r", "o", ".", "h">>>>, EmptyObj, <<"w">>)

\* views/site/pages/home.html: a second directory named pages, below site
Home2 == File(<<viewsDir, siteDir, pages, <<"h", "o", "m", "e", ".", "h">>>>,
              EmptyObj, <<"v">>)

ViewPool == {Index, Home, About, Faq, Intro, Home2}

\* views/use.html: includes the partial button and reads its local field
Use == File(<<viewsDir, <<"u", "s", "e", ".", "h">>>>, EmptyObj,
            <<"{", "{", ">", " ">> \o <<"b", "u", "t", "t", "o", "n">> \o <<"}", "}">>
            \o <<"{", "{">> \o <<"b", "u", "t", "t", "o", "n", ".", "a">> \o <<"}", "}">>)

\* docs/usage.md
Usage == [path |-> <<docsKey, <<"u", "s", "a", "g", "e", ".", "m">>>>, content |-> <<"t">>]

\* every list of at most n distinct elements of S
ListsOf(S, n) ==
    UNION {{s \in [1..k -> S] : \A i, j \in 1..k : i # j => s[i] # s[j]} : k \in 0..n}

SubsetsOf(S, n) == {T \in SUBSET S : Cardinality(T) <= n}

\* calls that vary the materials and the order they are discovered in
MaterialInputs ==
    {[options |-> <<>>, layouts |-> {DefaultLayout}, includes |-> {}, data |-> {DataK},
      materials |-> m, views |-> {Index, Use}, docs |-> {Usage}] :
        m \in ListsOf(MaterialPool, MaxMaterials)}

\* calls that vary the views, the layouts, the default layout and the data
ViewInputs ==
    {[options |-> o, layouts |-> l, includes |-> {}, data |-> d,
      materials |-> <<Button>>, views |-> v, docs |-> {Usage}] :
        o \in {<<>>, [layout |-> <<"c">>]},
        l \in SUBSET {DefaultLayout, CustomLayout},
        d \in SUBSET {DataK, DataButton},
        v \in SubsetsOf(ViewPool, MaxViews)}

Inputs == MaterialInputs \cup ViewInputs

Next == Call(Inputs) \/ Steps

Spec == Init /\ [][Next]_vars

----------------------------------------------------------------------------
(* Several calls in one process: options, assembly and the Handlebars
   registry are module-level variables, so a call starts from what the
   previous call left in them *)

MaxRuns == 2

\* views/info.html: reads the local field of the material button
Info == File(<<viewsDir, <<"i", "n", "f", "o", ".", "h">>>>, EmptyObj,
             <<"{", "{">> \o <<"b", "u", "t", "t", "o", "n", ".", "a">> \o <<"}", "}">>)

RunInputs ==
    {[options |-> <<>>, layouts |-> {DefaultLayout}, includes |-> {}, data |-> d,
      materials |-> m, views |-> v, docs |-> {Usage}] :
        d \in {{}, {DataK}},
        m \in {<<>>, <<Button>>, <<Toggle, Button>>},
        v \in {{Use}, {Index, About}, {Info}}}

\* module.exports(options) is called again after the previous call has
\* returned or thrown; in between the files on disk may have changed and the
\* destination may have been emptied
CallAgain(Ins) ==
    /\ pc \in {"done", "failed"}
    /\ runs < MaxRuns
    /\ \E in \in Ins, clean \in BOOLEAN :
         /\ input' = in
         /\ options' = Assign(defaults, in.options)
         /\ prev' = [input |-> input, dest |-> dest, thrown |-> thrown,
                     clean |-> clean, prevClean |-> prev.clean]
         /\ dest' = IF clean THEN <<>> ELSE dest
         /\ destDirs' = IF clean THEN {} ELSE destDirs
    /\ pc' = "registerHelpers"
    /\ idx' = 0
    /\ thrown' = "none"
    /\ runs' = runs + 1
    /\ UNCHANGED <<assembly, partials, helpers, viewFiles, fnArgs, fnRes>>

NextRuns == Call(RunInputs) \/ CallAgain(RunInputs) \/ Steps

SpecRuns == Init /\ [][NextRuns]_vars

----------------------------------------------------------------------------
(* wrapPage and the field rewriting applied on their own *)

MaxPageLen == 3
MaxRefs == 2

StringsOver(chars, n) == UNION {[1..k -> chars] : k \in 0..n}

\* page bodies: text with the characters String.prototype.replace gives a
\* meaning to in a replacement string
WrapPages == StringsOver({"a", "$", "&", "bq", "sq"}, MaxPageLen)

WrapLayouts ==
    {DefaultLayout.content,
     CustomLayout.content,
     <<"x", "{", "%", "b", "o", "d", "y", " ", "%", "}", "{", "%", "b", "o", "d", "y", "%", "}">>,
     <<"x", "y">>,
     <<"{", "%", "b", "o", "d", "%", "}">>}

WrapArgs == [page : WrapPages, layout : WrapLayouts]

\* a reference in a material body: {{name}}, {{#name}}, {{ name}} or {{# name}}
RefNames == {<<"a">>, <<"a", "a">>, <<"a", "b">>, <<"b", "a">>, <<"b">>}

Refs == [sigil : {<<>>, <<"#">>}, sp : {<<>>, <<" ">>}, name : RefNames]

RefText(t) == <<"{", "{">> \o t.sigil \o t.sp \o t.name \o <<"}", "}">>

RECURSIVE Concat(_)
Concat(ss) == IF ss = <<>> THEN <<>> ELSE Head(ss) \o Concat(Tail(ss))

RewriteArgs ==
    [refs : StringsOver(Refs, MaxRefs),
     key  : {<<"a">>, <<"a", "b">>},
     id   : {<<"m">>, <<"f", ".", "t">>}]

InitFn(step, Args) ==
    /\ pc = step
    /\ input = NoInput
    /\ options = <<>>
    /\ assembly = EmptyAssembly
    /\ partials = <<>>
    /\ helpers = {}
    /\ viewFiles = <<>>
    /\ idx = 0
    /\ dest = <<>>
    /\ destDirs = {}
    /\ thrown = "none"
    /\ runs = 0
    /\ fnArgs \in Args
    /\ fnRes = <<>>
    /\ prev = NoPrev

ApplyWrapPage ==
    /\ pc = "wrapPage"
    /\ fnRes' = wrapPage(fnArgs.page, fnArgs.layout)
    /\ pc' = "returned"
    /\ UNCHANGED <<input, options, assembly, partials, helpers, viewFiles, idx, dest,
                   destDirs, thrown, runs, fnArgs, prev>>

SpecWrap == InitFn("wrapPage", WrapArgs) /\ [][ApplyWrapPage]_vars

ApplyRewriteField ==
    /\ pc = "rewriteField"
    /\ fnRes' = RewriteField(Concat([i \in DOMAIN fnArgs.refs |-> RefText(fnArgs.refs[i])]),
                             fnArgs.key, fnArgs.id)
    /\ pc' = "returned"
    /\ UNCHANGED <<input, options, assembly, partials, helpers, viewFiles, idx, dest,
                   destDirs, thrown, runs, fnArgs, prev>>

SpecRewrite == InitFn("rewriteField", RewriteArgs) /\ [][ApplyRewriteField]_vars

----------------------------------------------------------------------------
(* Properties *)

\* setup() has returned in the running call
SetupDone == pc \in {"assemble", "assemblePage", "done"}

\* parseMaterials has run in the running call
MaterialsParsed == pc \in {"parseViews", "parseDocs", "assemble", "assemblePage", "done"}

\* keys that the layers merged after assembly.data define
LaterLayerKeys == (DOMAIN assembly.materialData) \cup {materialsKey, viewsKey, docsKey}

\* C1 as stated: for every page and every key k set both in the page's front
\* matter and by a data file of id k, the context built for the page maps k
\* to the front-matter value.
C1_FrontMatterWins ==
    SetupDone =>
        \A v \in input.views :
            \A k \in (DOMAIN v.data.val) \cap (DOMAIN assembly.data) :
                buildContext(assembly, PageData(v))[k] = v.data.val[k]

\* C1 amended: for every page and every key k set both in the page's front
\* matter and by a data file of id k (and by no layer merged after the data
\* files), the context built for the page maps k to the data file's value;
\* a front-matter key keeps its value only when no other layer defines it.
C1_DataWins ==
    SetupDone =>
        \A v \in input.views :
            \A k \in DOMAIN PageData(v).val :
                LET c == buildContext(assembly, PageData(v)) IN
                /\ (k \in DOMAIN assembly.data /\ k \notin LaterLayerKeys)
                       => c[k] = assembly.data[k]
                /\ (k \notin DOMAIN assembly.data /\ k \notin LaterLayerKeys)
                       => c[k] = PageData(v).val[k]

C1_Witness ==
    /\ SetupDone
    /\ \E v \in input.views :
         \E k \in (DOMAIN v.data.val) \cap (DOMAIN assembly.data) :
            /\ k \notin LaterLayerKeys
            /\ assembly.data[k] # v.data.val[k]

buttonId == <<"b", "u", "t", "t", "o", "n">>
toggleId == forms \o <<".">> \o <<"t", "o", "g", "g", "l", "e">>

\* C3: with components/button.html and components/forms/toggle.html, in
\* whichever order they are discovered, parseMaterials completes and yields
\* the collection components holding the material button and the
\* sub-collection forms, which holds toggle under the id forms.toggle.
C3_NestedEitherOrder ==
    (input.materials \in {<<Button, Toggle>>, <<Toggle, Button>>}
     /\ (MaterialsParsed \/ pc = "failed"))
        => /\ thrown # "parseMaterials"
           /\ ObjHas(assembly.materials, components)
           /\ LET items == assembly.materials.val[components].items IN
              /\ ObjHas(items, buttonId)
              /\ ObjHas(items, forms)
              /\ "items" \in DOMAIN items.val[forms]
              /\ ObjHas(items.val[forms].items, toggleId)

\* keys in ascending order
Ascending(keys) == \A i, j \in 1..Len(keys) : i < j => StrLess(keys[i], keys[j])

\* C4: after setup, whatever the discovery order, the top-level materials
\* collections, the items of every materials collection, the items of every
\* materials sub-collection and the items of every views collection are
\* listed in ascending order of id.
C4_ListingsSorted ==
    SetupDone =>
        /\ Ascending(assembly.materials.keys)
        /\ \A c \in DOMAIN assembly.materials.val :
             LET items == assembly.materials.val[c].items IN
             /\ Ascending(items.keys)
             /\ \A e \in DOMAIN items.val :
                  "items" \in DOMAIN items.val[e] => Ascending(items.val[e].items.keys)
        /\ \A c \in DOMAIN assembly.views.val :
             Ascending(assembly.views.val[c].items.keys)

\* the layout id C5 names for a view: its layout field, or options.layout
\* when it has none
ChosenLayout(v) ==
    IF ObjHas(v.data, layoutKey) THEN v.data.val[layoutKey].str ELSE options.layout

C6_PathMirrorsViewsRoot ==
    pc = "done" =>
        \A v \in input.views : (<<options.dest>> \o Tail(v.path)) \in DOMAIN dest

\* C7: wrapPage replaces one occurrence of the body placeholder of the layout
\* by the page body, inserted verbatim; a layout without placeholder is
\* returned unchanged.
C7_BodyVerbatim ==
    (pc = "returned" /\ "ok" \in DOMAIN fnRes) =>
        LET l == fnArgs.layout
            i == FirstPlaceholder(l)
        IN IF i = 0 THEN fnRes.ok = l
           ELSE fnRes.ok = Slice(l, 1, i - 1) \o fnArgs.page
                           \o Slice(l, i + PlaceholderAt(l, i), Len(l))

\* a material file whose trimmed body holds a plain reference {{k}} or {{ k }}
RefersTo(content, k) ==
    \E i \in 1..Len(content) :
        LET m == FieldMatchAt(content, i, k)
        IN m.len > 0 /\ m.p1 = <<"{", "{">> /\ StripSpace(m.p2) = k

\* C8: for every material M with a local field k = v and a body referring to
\* k, after setup the body registered for M refers to k qualified by M's id,
\* the context resolves the qualified reference to v, and rendering the
\* registered body gives what the body gives with k bound to v.
C8_LocalFieldRoundTrip ==
    SetupDone =>
        \A n \in DOMAIN input.materials :
            LET f     == input.materials[n]
                id    == MaterialId(f.path, MaterialDirs(input.materials))
                local == Omit(f.data, notesKey)
                body  == TrimContent(f.content)
                ctx   == buildContext(assembly, EmptyObj)
                qual  == SafeId(id) \o <<".">>
            IN \A k \in DOMAIN local.val :
                 RefersTo(body, k) =>
                    /\ id \in DOMAIN partials
                    /\ \E i \in 1..Len(partials[id]) :
                          StartsAt(partials[id], i, <<"{", "{">> \o qual \o k \o <<"}", "}">>)
                    /\ Lookup(ctx, qual \o k) = local.val[k]
                    /\ Render(partials[id], ctx, partials).text
                         = Render(body, local.val, partials).text

\* C9: rewriting the references to a local field f qualifies the references
\* whose field token is exactly f and leaves every reference to another
\* field name unchanged, also a name that contains f or begins with f.
C9_OnlyExactTokens ==
    pc = "returned" =>
        fnRes = Concat([i \in DOMAIN fnArgs.refs |->
                          LET t == fnArgs.refs[i] IN
                          IF t.name = fnArgs.key
                          THEN <<"{", "{">> \o t.sigil \o SafeId(fnArgs.id) \o <<".">>
                               \o t.name \o <<"}", "}">>
                          ELSE RefText(t)])

\* C10 as stated: the key of the registered body of a material and the key of
\* its local fields are the same key, the qualified id with every "." replaced
\* by "-".
C10_SameSafeKey ==
    MaterialsParsed =>
        \A n \in DOMAIN input.materials :
            LET id == MaterialId(input.materials[n].path, MaterialDirs(input.materials))
            IN /\ PartialKey(id) = DataKey(id)
               /\ SafeId(id) \in DOMAIN partials
               /\ SafeId(id) \in DOMAIN assembly.materialData

\* C10 amended: the body of a material is registered under its qualified id
\* as it is, and its local fields are stored under the qualified id with every
\* "." replaced by "-"; the two keys are the same exactly when the qualified
\* id has no ".", so they differ for every material of a sub-collection.
C10_RegistryKeyKeepsDots ==
    MaterialsParsed =>
        \A n \in DOMAIN input.materials :
            LET f      == input.materials[n]
                dirs   == MaterialDirs(input.materials)
                id     == MaterialId(f.path, dirs)
                local  == Omit(f.data, notesKey)
                last   == \A m \in DOMAIN input.materials :
                              m > n => MaterialId(input.materials[m].path, dirs) # id
            IN /\ id \in DOMAIN partials
               /\ SafeId(id) \in DOMAIN assembly.materialData
               /\ last => /\ partials[id] = RewriteFields(TrimContent(f.content), local.keys, id)
                          /\ assembly.materialData[SafeId(id)] = local
               /\ (PartialKey(id) = DataKey(id)) <=> (\A i \in 1..Len(id) : id[i] # ".")
               /\ (ParentDirName(f.path) \in dirs) => PartialKey(id) # DataKey(id)

C10_Witness ==
    /\ MaterialsParsed
    /\ \E n \in DOMAIN input.materials :
         LET f  == input.materials[n]
             id == MaterialId(f.path, MaterialDirs(input.materials))
         IN /\ ParentDirName(f.path) \in MaterialDirs(input.materials)
            /\ id \in DOMAIN partials
            /\ SafeId(id) \in DOMAIN assembly.materialData

\* ids of the files of a set
IdsOf(files) == {getFileName(f.path) : f \in files}

\* C11: when a call returns, in any sequence of calls, every store holds only
\* entries derived from the files discovered in that call: no layout, data
\* record, materials collection, materialData entry, views collection or doc
\* of an earlier call remains.
C11_StoresOfThisCallOnly ==
    pc = "done" =>
        LET dirs == MaterialDirs(input.materials) IN
        /\ DOMAIN assembly.layouts \subseteq IdsOf(input.layouts)
        /\ DOMAIN assembly.data \subseteq IdsOf(input.data)
        /\ DOMAIN assembly.materials.val \subseteq dirs
        /\ DOMAIN assembly.materialData \subseteq
              {DataKey(MaterialId(input.materials[n].path, dirs)) : n \in DOMAIN input.materials}
        /\ DOMAIN assembly.views.val \subseteq {ViewCollection(v.path) : v \in input.views}
        /\ DOMAIN assembly.docs.val \subseteq IdsOf(input.docs)

\* output paths of the first n views in discovery order
WrittenFor(n) == {OutputPath(options, viewFiles[i].path) : i \in 1..n}

\* what assemble() writes for the view at index i
OutputOf(i) ==
    AssembleOne(viewFiles[i], options, assembly, partials).text

\* the views before index n whose output path no later view before n has
KeptBefore(n) ==
    {i \in 1..(n - 1) :
        \A j \in (i + 1)..(n - 1) :
            OutputPath(options, viewFiles[j].path) # OutputPath(options, viewFiles[i].path)}

\* C12: the call returns only after every discovered view has been written;
\* when a view fails (its layout is not found, or its template cannot be
\* evaluated) the call ends there: the destination holds exactly the outputs
\* of the views before it in discovery order, with their content, and none
\* of a later view.
C12_AllWrittenOrStopsAtFirstFailure ==
    /\ pc = "done" =>
          /\ Len(viewFiles) = Cardinality(input.views)
          /\ idx = Len(viewFiles) + 1
          /\ DOMAIN dest = WrittenFor(Len(viewFiles))
    /\ (pc = "failed" /\ thrown \in {"wrapPage", "template"}) =>
          /\ idx \in 1..Len(viewFiles)
          /\ AssembleOne(viewFiles[idx], options, assembly, partials).at = thrown
          /\ DOMAIN dest = WrittenFor(idx - 1)
          /\ \A i \in KeptBefore(idx) :
                dest[OutputPath(options, viewFiles[i].path)] = OutputOf(i)

C12_Witness ==
    /\ pc = "failed"
    /\ thrown = "wrapPage"
    /\ idx >= 2
    /\ idx < Len(viewFiles)
    /\ DOMAIN dest # {}
    /\ OutputPath(options, viewFiles[idx + 1].path) \notin DOMAIN dest

\* C13: a call with the same options and the same files in the same
\* discovery order as the call before it, both begun with an empty
\* destination, ends the same way and leaves the same output paths with the
\* same content: what the earlier call left in assembly and in the registry
\* does not change its output.
C13_SameInputSameOutput ==
    (/\ pc \in {"done", "failed"}
     /\ runs >= 2
     /\ prev.input = input
     /\ prev.clean
     /\ prev.prevClean)
        => /\ dest = prev.dest
           /\ thrown = prev.thrown

C13_Witness ==
    /\ pc = "done"
    /\ runs >= 2
    /\ prev.input = input
    /\ prev.clean
    /\ prev.prevClean
    /\ input.materials = <<Button>>
    /\ Use \in input.views
    /\ DOMAIN dest # {}
    /\ dest = prev.dest

\* C14: within one run of assemble() no two distinct view files are written
\* to the same output path: when the call returns, the destination holds as
\* many files as views were discovered and each view's file holds the output
\* of that view, not of another.
C14_DistinctOutputPaths ==
    pc = "done" =>
        /\ \A i, j \in 1..Len(viewFiles) :
              i # j => OutputPath(options, viewFiles[i].path)
                         # OutputPath(options, viewFiles[j].path)
        /\ Cardinality(DOMAIN dest) = Len(viewFiles)
        /\ \A i \in 1..Len(viewFiles) :
              dest[OutputPath(options, viewFiles[i].path)] = OutputOf(i)

\* the record parseMaterials makes for a material file
RecordOf(f, dirs) ==
    LET id == MaterialId(f.path, dirs) IN
    [name  |-> titleCase(IF ParentDirName(f.path) \in dirs THEN SplitDot(id)[2] ELSE id),
     notes |-> IF Truthy(f.data, notesKey) THEN mdRender(f.data.val[notesKey].str)
               ELSE Str(<<>>)]

\* where the record of a material file belongs: collection and id, or
\* collection, sub-collection and id
PlaceOf(f, dirs) ==
    IF ParentDirName(f.path) \in dirs
    THEN <<ParentDirName(f.path), DirName(f.path), MaterialId(f.path, dirs)>>
    ELSE <<DirName(f.path), MaterialId(f.path, dirs)>>

IsCollection(e) == DOMAIN e = {"name", "items"}

IsMaterial(e) == DOMAIN e = {"name", "notes"}

\* the places of assembly.materials that hold a material record
MaterialPlaces ==
    LET m == assembly.materials.val IN
    UNION {{<<c, e>> : e \in {x \in DOMAIN m[c].items.val : IsMaterial(m[c].items.val[x])}}
             : c \in DOMAIN m}
    \cup
    UNION {UNION {{<<c, e, g>> : g \in {x \in DOMAIN m[c].items.val[e].items.val :
                                           IsMaterial(m[c].items.val[e].items.val[x])}}
                    : e \in {x \in DOMAIN m[c].items.val : IsCollection(m[c].items.val[x])}}
             : c \in DOMAIN m}

\* C15: the discovered material files having distinct paths (so distinct
\* names within each directory), after parseMaterials has completed every
\* file has its record (name and notes) at the place of its directory, the
\* material records are as many as the files, and every entry of a
\* collection is a material record or a sub-collection with items of its
\* own that are material records.
C15_EachMaterialOnce ==
    (MaterialsParsed
     /\ \A a, b \in DOMAIN input.materials :
           a # b => input.materials[a].path # input.materials[b].path)
        => LET files == input.materials
               dirs  == MaterialDirs(files)
               m     == assembly.materials.val
           IN /\ \A n \in DOMAIN files :
                    LET pl == PlaceOf(files[n], dirs) IN
                    /\ pl \in MaterialPlaces
                    /\ IF Len(pl) = 2
                       THEN m[pl[1]].items.val[pl[2]] = RecordOf(files[n], dirs)
                       ELSE m[pl[1]].items.val[pl[2]].items.val[pl[3]]
                              = RecordOf(files[n], dirs)
              /\ Cardinality(MaterialPlaces) = Len(files)
              /\ \A c \in DOMAIN m :
                    /\ IsCollection(m[c])
                    /\ \A e \in DOMAIN m[c].items.val :
                          LET x == m[c].items.val[e] IN
                          \/ IsMaterial(x)
                          \/ /\ IsCollection(x)
                             /\ \A g \in DOMAIN x.items.val : IsMaterial(x.items.val[g])

====
